---- MODULE Spec2Model ----
(***************************************************************************)
(* The inspection-submission pipeline of hse_app_api: POST /analyze of     *)
(* src/routes/inspections.ts (src/unnamed/part_003), the three tables it   *)
(* writes (src/db/schema.ts, src/unnamed/part_002) and the JSON body       *)
(* parser in front of it (src/unnamed/part_000).                           *)
(*                                                                         *)
(* A handler is a chain of awaits.  Each action below is one resumption of *)
(* the handler: the awaited call takes effect and the synchronous code     *)
(* that follows runs up to the next await.  Handlers of different requests *)
(* interleave at these points only (one Node.js event loop).               *)
(*                                                                         *)
(* Time is the UTC calendar month (year*12 + month), the only part of a    *)
(* Date that sameMonth reads.                                              *)
(***************************************************************************)
EXTENDS Integers, Sequences, FiniteSets

VARIABLES
    now,          \* the current UTC calendar month
    users,        \* table users: sequence of rows, a row's id is its index
    inspections,  \* table inspections: set of rows
    usageLogs,    \* table usage_logs: set of rows
    req           \* the requests: the handler's local variables and position

vars == <<now, users, inspections, usageLogs, req>>

----------------------------------------------------------------------------
(* Bounds of the model *)

\* MONTHLY_INSPECTION_LIMIT is read from the environment (default 100);
\* the model runs the service configured with a small limit.
MONTHLY_INSPECTION_LIMIT == 2

\* number of month boundaries that pass
MaxMonth == 1

----------------------------------------------------------------------------
(* Program constants *)

\* express.json({ limit: "10mb" })
JSON_BODY_LIMIT == 10485760

\* if (approxBytes > 8_000_000)
MAX_IMAGE_BYTES == 8000000

\* compressToWebP(rawBuf, { maxSide: 1600, quality: 72 })
MaxSide == 1600

----------------------------------------------------------------------------
(* Inputs *)

\* the requests of a run, numbered in the order of their arrival; two are
\* what the races between handlers need, earlier requests are in Init
Reqs == {1, 2}

\* identities known to the identity provider; NoClerk: getAuth gives no userId
ClerkIds == {"ca"}
NoClerk == "anonymous"

\* imageUrl of the body is absent ("none"), a URL ("url") or a string that
\* is no URL ("notaurl").
\* imageData of the body: absent, or a base64 string given by its length in
\* characters: the empty string, a small photo, and the photo of 9,000,000
\* decoded bytes
NoImageData == [present |-> FALSE, len |-> 0]
ImageData(n) == [present |-> TRUE, len |-> n]

\* A decoded image: the pixels of the file as stored, the EXIF orientation
\* (1: upright, 6: to be turned by 90 degrees), and whether metadata()
\* reports the dimensions.  NoImage: no buffer.
Image(w, h, o, m) == [width |-> w, height |-> h, orientation |-> o, meta |-> m]
NoImage == Image(0, 0, 1, FALSE)

\* the photo the requests of the app carry in imageData
Photo == Image(4000, 3000, 1, TRUE)

\* the photos given to the normalizer
Images ==
    { Image(w, h, o, m) : w \in {400, 800, 1600, 3000, 4000},
                          h \in {400, 800, 1600, 3000, 4000},
                          o \in {1, 6}, m \in BOOLEAN }

\* The requests sent to POST /analyze: who sends it, imageUrl, imageData.
Requests ==
    { <<NoClerk, "none", ImageData(1024)>>,      \* no session
      <<"ca", "none", NoImageData>>,             \* neither field
      <<"ca", "notaurl", NoImageData>>,          \* imageUrl is no URL
      <<"ca", "none", ImageData(0)>>,            \* imageData is empty
      <<"ca", "url", NoImageData>>,              \* imageUrl alone
      <<"ca", "none", ImageData(1024)>>,         \* imageData alone
      <<"ca", "url", ImageData(1024)>>,          \* both fields
      <<"ca", "none", ImageData(12000000)>> }    \* 9,000,000 decoded bytes

\* a third POST /analyze request of the user, sent while two are in flight
Racers == {5}

\* the deliveries of the identity provider to POST /api/webhooks, one at a
\* time
Hooks == {6}

\* evt.type
EventTypes == {"user.created", "user.updated", "user.deleted", "session.created"}

\* the requests of a run to GET /:id
Readers == {3}

\* who sends them: no session, the user of the POST requests, another user
GetCallers == {NoClerk, "ca", "cb"}

\* req.params.id: a string that is a uuid, given by the number the model
\* uses for the row ids, or a string that is none
Uuid(n) == [uuid |-> TRUE, n |-> n]
NotUuid == [uuid |-> FALSE, n |-> 0]

\* the ids asked for: of an inspection the run started with, of the
\* inspection of request 1, of no inspection, and "abc"
GetIds == {Uuid(0 - 1), Uuid(1), Uuid(7), NotUuid}

\* the requests of a run to the admin routes: GET /admin/stats and GET
\* /admin/all of src/routes/inspections.ts, GET /admin/ and PATCH /admin/:id
\* of src/routes/users.ts
Admins == {4}
AdminRoutes == {"stats", "all", "users", "patch"}

\* publicMetadata.appRole as the identity provider reports it
AppRoles == {"superadmin", "user", "none"}

\* the body of PATCH /admin/:id: the fields it carries and their values
Patch(fields, active, monthly, reset) ==
    [fields |-> fields, isActive |-> active, monthlyInspectionCount |-> monthly,
     lastResetDate |-> reset]
NoPatch == Patch({}, TRUE, 0, 0)
Patches ==
    { NoPatch,
      Patch({"isActive"}, FALSE, 0, 0),
      Patch({"isActive"}, TRUE, 0, 0),
      Patch({"monthlyInspectionCount"}, TRUE, 3, 0),
      Patch({"monthlyInspectionCount"}, TRUE, 0 - 1, 0),
      Patch({"lastResetDate"}, TRUE, 0, 0) }

\* The requests sent to the admin routes: route, who sends it, :id, body.
AdminRequests ==
    { <<"stats", NoClerk, Uuid(0), NoPatch>>,
      <<"stats", "cb", Uuid(0), NoPatch>>,
      <<"all", "cb", Uuid(0), NoPatch>>,
      <<"users", "cb", Uuid(0), NoPatch>>,
      <<"patch", NoClerk, Uuid(1), Patch({"isActive"}, FALSE, 0, 0)>>,
      <<"patch", "cb", Uuid(9), Patch({"isActive"}, FALSE, 0, 0)>> }
    \cup { <<"patch", "cb", Uuid(1), p>> : p \in Patches }

\* err.status of an exception thrown by the model client: none, or the
\* provider's authentication failures
ErrStatuses == {0, 401}

----------------------------------------------------------------------------
(* The model's answer and its validation *)

SafetyGradeEnum == {"A", "B", "C", "D", "F"}
HazardCategoryEnum ==
    {"PPE", "Fall", "Fire", "Electrical", "Chemical", "Machinery",
     "Environmental", "Other"}
HazardSeverityEnum == {"Critical", "High", "Medium", "Low"}

Hazard(cat, sev, prio) == [category |-> cat, severity |-> sev, priority |-> prio]

\* outputText as the fields the schema reads, and whether completion.usage
\* came with it
Answer(json, overall, grade, score, hz, usage) ==
    [json |-> json, hasOverall |-> overall, safetyGrade |-> grade,
     riskScore |-> score, hazards |-> hz, usage |-> usage]

\* no answer yet
NoAnswer == Answer(FALSE, FALSE, "", 0, <<>>, FALSE)

\* Texts the model can return: two well-formed reports, text that is no
\* JSON, and JSON that breaks the schema in one place each.
ModelAnswers ==
    { Answer(TRUE, TRUE, "A", 10, <<>>, FALSE),
      Answer(TRUE, TRUE, "D", 75, <<Hazard("Fall", "High", 8)>>, TRUE),
      Answer(FALSE, FALSE, "", 0, <<>>, TRUE),
      Answer(TRUE, FALSE, "", 0, <<>>, TRUE),
      Answer(TRUE, TRUE, "E", 10, <<>>, TRUE),
      Answer(TRUE, TRUE, "B", 101, <<>>, TRUE),
      Answer(TRUE, TRUE, "B", 40, <<Hazard("Slip", "High", 11)>>, TRUE) }

HazardOk(h) ==
    /\ h.category \in HazardCategoryEnum
    /\ h.severity \in HazardSeverityEnum
    /\ h.priority >= 1 /\ h.priority <= 10

\* the schema with overallAssessment optional
ParsesAnalysis_OverallOptional(a) ==
    /\ a.json
    /\ \A i \in DOMAIN a.hazards : HazardOk(a.hazards[i])
    /\ a.hasOverall =>
         /\ a.riskScore >= 0 /\ a.riskScore <= 100
         /\ a.safetyGrade \in SafetyGradeEnum

\* analysisResultSchema.parse(JSON.parse(outputText)) does not throw
ParsesAnalysis(a) ==
    /\ a.json
    /\ \A i \in DOMAIN a.hazards : HazardOk(a.hazards[i])
    /\ a.hasOverall
    /\ a.riskScore >= 0 /\ a.riskScore <= 100
    /\ a.safetyGrade \in SafetyGradeEnum

----------------------------------------------------------------------------
(* Payload *)

\* the schema without its refine
PayloadOk_NoRefine(url, data) ==
    /\ url \in {"none", "url"}
    /\ data.present => data.len >= 1

\* analyzePayloadSchema.safeParse(req.body).success
PayloadOk(url, data) ==
    /\ url \in {"none", "url"}                    \* z.url().optional()
    /\ data.present => data.len >= 1              \* z.string().min(1).optional()
    /\ (url = "url") \/ (data.present /\ data.len > 0)   \* refine

\* bytes of the JSON body: at least the characters of imageData
BodyBytes(url, data) == 2 + (IF data.present THEN data.len + 14 ELSE 0)
                          + (IF url = "none" THEN 0 ELSE 20)

\* Math.floor(imageData.length * 0.75)
ApproxBytes(len) == (len * 3) \div 4

\* the length of base64ToBuffer(imageData)
DecodedBytes(len) == (len * 3) \div 4

----------------------------------------------------------------------------
(* Image normalizer: src/lib/image.ts *)

\* a / b rounded to the nearest integer, at least 1
Round(a, b) == IF (2 * a + b) \div (2 * b) < 1 THEN 1 ELSE (2 * a + b) \div (2 * b)

\* sharp(input).rotate(): the pixels after auto-orientation
Rotated(img) ==
    IF img.orientation \in {5, 6, 7, 8}
      THEN [width |-> img.height, height |-> img.width]
      ELSE [width |-> img.width, height |-> img.height]

\* resize({ width: side }) and resize({ height: side }) of the rotated
\* pixels, the aspect ratio kept
ResizeWidth(px, side) ==
    [width |-> side, height |-> Round(px.height * side, px.width)]
ResizeHeight(px, side) ==
    [width |-> Round(px.width * side, px.height), height |-> side]

\* compressToWebP: width and height of the result.  metadata() reports the
\* dimensions of the file as stored, before the rotation.
compressToWebP(img, maxSide) ==
    LET px == Rotated(img)
    IN IF img.meta
         THEN IF img.width >= img.height THEN ResizeWidth(px, maxSide)
                                         ELSE ResizeHeight(px, maxSide)
         ELSE ResizeWidth(px, maxSide)

----------------------------------------------------------------------------
(* Quota ledger *)

\* a Date is the number of its UTC month since the service's epoch
getUTCFullYear(d) == d \div 12
getUTCMonth(d) == d % 12

\* sameMonth that forgets the month
sameMonth_YearOnly(a, b) == getUTCFullYear(a) = getUTCFullYear(b)

sameMonth(a, b) ==
    getUTCFullYear(a) = getUTCFullYear(b) /\ getUTCMonth(a) = getUTCMonth(b)

\* a new row that already counts an inspection
UserRow_Counted(clerk, month) ==
    [clerkUserId |-> clerk, inspectionCount |-> 1, monthlyInspectionCount |-> 1,
     lastResetDate |-> month, isActive |-> TRUE]

UserRow(clerk, month) ==
    [clerkUserId |-> clerk, inspectionCount |-> 0, monthlyInspectionCount |-> 0,
     lastResetDate |-> month, isActive |-> TRUE]

\* db.select().from(users).where(eq(users.clerkUserId, c)).limit(1)
SelectByClerk(c) == {i \in DOMAIN users : users[i].clerkUserId = c}

\* a users table without the unique key
UniqueViolation_None(c) == FALSE

\* clerk_user_id is unique: an insert of a second row with the key fails
UniqueViolation(c) == SelectByClerk(c) # {}

\* the admission check without the month comparison
EffectiveMonthly_Stored(row, month) == row.monthlyInspectionCount

\* the monthly count the admission check works with
EffectiveMonthly(row, month) ==
    IF sameMonth(month, row.lastResetDate) THEN row.monthlyInspectionCount ELSE 0

\* the comparison off by one
CanRun_OffByOne(row, month) ==
    EffectiveMonthly(row, month) <= MONTHLY_INSPECTION_LIMIT

\* an admission check that turns inactive users away
CanRun_ActiveOnly(row, month) ==
    row.isActive /\ EffectiveMonthly(row, month) < MONTHLY_INSPECTION_LIMIT

\* canRunAnotherInspection, after its select
CanRun(row, month) == EffectiveMonthly(row, month) < MONTHLY_INSPECTION_LIMIT

\* an increment that counts the month and not the lifetime
IncrementOf_MonthlyOnly(row, month) ==
    LET reset == ~sameMonth(month, row.lastResetDate)
    IN [inspectionCount |-> row.inspectionCount,
        monthlyInspectionCount |->
            (IF reset THEN 0 ELSE row.monthlyInspectionCount) + 1,
        lastResetDate |-> IF reset THEN month ELSE row.lastResetDate]

\* the increment without the monthly reset
IncrementOf_NoReset(row, month) ==
    [inspectionCount |-> row.inspectionCount + 1,
     monthlyInspectionCount |-> row.monthlyInspectionCount + 1,
     lastResetDate |-> row.lastResetDate]

\* the values incrementUserInspectionCounters sets, from the row it read
IncrementOf(row, month) ==
    LET reset == ~sameMonth(month, row.lastResetDate)
        monthly == IF reset THEN 0 ELSE row.monthlyInspectionCount
        lastReset == IF reset THEN month ELSE row.lastResetDate
    IN [inspectionCount |-> row.inspectionCount + 1,
        monthlyInspectionCount |-> monthly + 1,
        lastResetDate |-> lastReset]

----------------------------------------------------------------------------
(* Handler state *)

NoRow == [inspectionCount |-> 0, monthlyInspectionCount |-> 0, lastResetDate |-> 0]

IdleReq ==
    [pc |-> "idle", clerk |-> NoClerk, url |-> "none",
     data |-> NoImageData,
     appUser |-> 0,          \* appUser.id, 0 before getOrCreate returned
     inCatch |-> FALSE,      \* control is in the catch block
     errStatus |-> 0,        \* err.status of the caught exception
     finalUrl |-> FALSE,     \* finalImageUrl is set
     rawBuf |-> NoImage,     \* rawBuf, the decoded imageData
     webp |-> [width |-> 0, height |-> 0],   \* webp.width, webp.height
     answer |-> NoAnswer,    \* completion: outputText and usage
     row |-> NoRow,          \* row of incrementUserInspectionCounters
     rowNow |-> 0,           \* now of incrementUserInspectionCounters
     status |-> 0,           \* HTTP status of the response, 0 before it
     target |-> NotUuid,     \* req.params.id
     route |-> "",           \* the admin route asked for
     patch |-> NoPatch,      \* the body of PATCH /admin/:id
     role |-> "",            \* the appRole ensureSuperadmin was given
     body |-> {},            \* the inspection rows of the response
     event |-> "",           \* evt.type of a webhook
     email |-> FALSE,        \* extractEmail(evt.data) finds an address
     \* history of the request, read by the properties only
     inactive |-> FALSE,     \* the quota check ran on a row with isActive false
     made |-> 0,             \* rows of users inserted
     puts |-> 0,             \* uploads to object storage invoked
     calls |-> 0,            \* calls of the model invoked
     incs |-> 0,             \* counter updates executed
     ran |-> 0]              \* statements of an admin route's body executed

InFlight(r) == req[r].pc \notin {"idle", "done"}

\* the awaits of the try block
TryAwaits ==
    {"user_select", "user_clerk", "user_insert", "quota", "compress", "upload",
     "model", "insert_inspection", "incr_select", "incr_update", "log"}

\* the awaits of GET /:id
GetAwaits == {"user_select", "user_clerk", "user_insert", "select_inspection"}

\* the awaits of the catch block's inner try
CatchAwaits == {"user_select", "user_clerk", "user_insert", "fail_log"}

\* res.status(st): the handler returns and its local variables are gone
Respond(r, st) ==
    [req[r] EXCEPT !.pc = "done", !.status = st, !.row = NoRow, !.rowNow = 0,
                   !.inCatch = FALSE, !.errStatus = 0, !.finalUrl = FALSE,
                   !.answer = NoAnswer, !.url = "none", !.data = NoImageData,
                   !.rawBuf = NoImage, !.webp = [width |-> 0, height |-> 0]]

\* res.status(...) of lines 277-280
ErrorStatus(st) == IF st = 401 \/ st = 403 THEN st ELSE 500

\* a handler that goes to the model without the quota check
AfterGetUser_SkipQuota(r, uid) ==
    [req[r] EXCEPT !.appUser = uid,
                   !.pc = IF r \in Readers THEN "select_inspection"
                          ELSE IF req[r].inCatch THEN "fail_log" ELSE "model"]

\* the statement that follows `const appUser = await getOrCreateAppUserByClerkId`
AfterGetUser(r, uid) ==
    [req[r] EXCEPT !.appUser = uid,
                   !.pc = IF r \in Readers THEN "select_inspection"
                          ELSE IF req[r].inCatch THEN "fail_log" ELSE "quota"]

\* an exception leaves an async handler that has no try/catch: the handler
\* is over and has sent no response
Unhandled(r) == [req[r] EXCEPT !.pc = "rejected", !.target = NotUuid]

\* a catch block that answers without recording the failure
Caught_NoLog(r, st) == Respond(r, ErrorStatus(st))

\* the catch block is entered with exception status st
Caught(r, st) ==
    [req[r] EXCEPT !.inCatch = TRUE, !.errStatus = st, !.pc = "user_select",
                   !.row = NoRow, !.rowNow = 0, !.finalUrl = FALSE, !.answer = NoAnswer,
                   !.url = "none", !.data = NoImageData,
                   !.rawBuf = NoImage, !.webp = [width |-> 0, height |-> 0]]

\* a catch block whose inner try/catch is missing: its exception leaves the
\* handler
Raise_Escapes(r, st) ==
    IF r \in Readers \/ req[r].inCatch THEN Unhandled(r) ELSE Caught(r, st)

\* an exception at an await: into the catch block from the try block,
\* swallowed by `catch {}` inside the catch block
Raise(r, st) ==
    IF r \in Readers THEN Unhandled(r)
    ELSE IF req[r].inCatch THEN Respond(r, ErrorStatus(req[r].errStatus))
    ELSE Caught(r, st)

\* What k earlier successful requests of user "ca", all in the current
\* month, have left in the tables.
PastAnswer == Answer(TRUE, TRUE, "B", 30, <<>>, TRUE)
PastInspection(j) ==
    [userId |-> 1, hazardCount |-> 0, riskScore |-> 30, safetyGrade |-> "B",
     analysisResults |-> PastAnswer, processingStatus |-> "completed",
     errorMessage |-> "", createdAt |-> 0, id |-> 0 - j]
PastLog(j) ==
    [userId |-> 1, success |-> TRUE, tokensUsed |-> "number", errorType |-> "",
     id |-> 0 - j]

\* The service starts on its database: empty, or holding a user who has run
\* k inspections this month, k up to the limit.
Init ==
    /\ now = 0
    /\ \/ /\ users = <<>>
          /\ inspections = {}
          /\ usageLogs = {}
       \/ \E k \in 0..MONTHLY_INSPECTION_LIMIT :
             /\ users = << [UserRow("ca", 0) EXCEPT
                               !.inspectionCount = k,
                               !.monthlyInspectionCount = k] >>
             /\ inspections = {PastInspection(j) : j \in 1..k}
             /\ usageLogs = {PastLog(j) : j \in 1..k}
    /\ req = [r \in Reqs \cup Readers \cup Admins \cup Racers \cup Hooks |-> IdleReq]

----------------------------------------------------------------------------
(* POST /analyze *)

\* The handler is entered with the parsed body: getAuth, the payload schema
\* (lines 117-129).
Analyze(r, clerk, url, data) ==
    /\ req[r].pc = "idle"
    /\ \A q \in Reqs : q < r => req[q].pc # "idle"
    /\ LET fresh == [IdleReq EXCEPT !.clerk = clerk, !.url = url, !.data = data]
       IN req' = [req EXCEPT ![r] =
            IF clerk = NoClerk
              THEN [fresh EXCEPT !.pc = "done", !.status = 401]
            ELSE IF ~PayloadOk(url, data)
              THEN [fresh EXCEPT !.pc = "done", !.status = 400]
            ELSE [fresh EXCEPT !.pc = "user_select"]]
    /\ UNCHANGED <<now, users, inspections, usageLogs>>

\* The request arrives at the app: express.json rejects a body above its
\* limit and the error middleware answers; any other body goes to the handler.
Receive(r, clerk, url, data) ==
    IF BodyBytes(url, data) > JSON_BODY_LIMIT
      THEN /\ req[r].pc = "idle"
           /\ \A q \in Reqs : q < r => req[q].pc # "idle"
           /\ req' = [req EXCEPT ![r] =
                 [IdleReq EXCEPT !.clerk = clerk, !.url = url, !.data = data,
                                 !.pc = "done", !.status = 500]]
           /\ UNCHANGED <<now, users, inspections, usageLogs>>
      ELSE Analyze(r, clerk, url, data)

\* getOrCreateAppUserByClerkId: the select returns
UserSelect(r) ==
    /\ req[r].pc = "user_select"
    /\ LET rows == SelectByClerk(req[r].clerk)
       IN req' = [req EXCEPT ![r] =
            IF rows # {}
              THEN AfterGetUser(r, CHOOSE i \in rows : \A j \in rows : i <= j)
              ELSE [req[r] EXCEPT !.pc = "user_clerk"]]
    /\ UNCHANGED <<now, users, inspections, usageLogs>>

\* getOrCreateAppUserByClerkId: clerkClient.users.getUser returns
UserClerk(r) ==
    /\ req[r].pc = "user_clerk"
    /\ req' = [req EXCEPT ![r].pc = "user_insert"]
    /\ UNCHANGED <<now, users, inspections, usageLogs>>

\* getOrCreateAppUserByClerkId: the insert returns, or the unique key
\* clerk_user_id rejects it
UserInsert(r) ==
    /\ req[r].pc = "user_insert"
    /\ IF UniqueViolation(req[r].clerk)
         THEN /\ req' = [req EXCEPT ![r] = Raise(r, 0)]
              /\ users' = users
         ELSE /\ users' = Append(users, UserRow(req[r].clerk, now))
              /\ req' = [req EXCEPT ![r] =
                    [AfterGetUser(r, Len(users) + 1) EXCEPT !.made = @ + 1]]
    /\ UNCHANGED <<now, inspections, usageLogs>>

\* The quota check returns, then lines 134-161: the 429, the choice of the
\* image source, the size guard, and the call that is awaited next.
QuotaCheck(r) ==
    /\ req[r].pc = "quota"
    /\ LET uid == req[r].appUser
           found == uid \in DOMAIN users
           allowed == IF found THEN CanRun(users[uid], now) ELSE TRUE
           \* imageUrl and imageData are not read after line 157
           seen == [req[r] EXCEPT !.url = "none", !.data = NoImageData]
           next ==
            IF ~allowed
              THEN Respond(r, 429)
            ELSE IF req[r].url = "url"
              THEN [seen EXCEPT !.finalUrl = TRUE, !.pc = "model", !.calls = @ + 1]
            ELSE IF req[r].data.present /\ req[r].data.len > 0
              THEN IF ApproxBytes(req[r].data.len) > MAX_IMAGE_BYTES
                     THEN Respond(r, 413)
                     ELSE [seen EXCEPT !.pc = "compress", !.rawBuf = Photo]
            ELSE Respond(r, 400)
       IN req' = [req EXCEPT ![r] =
            [next EXCEPT !.inactive = found /\ ~users[uid].isActive]]
    /\ UNCHANGED <<now, users, inspections, usageLogs>>

\* compressToWebP returns; uploadBufferToBlob is invoked
Compress(r) ==
    /\ req[r].pc = "compress"
    /\ req' = [req EXCEPT ![r].pc = "upload", ![r].puts = @ + 1,
                          ![r].webp = compressToWebP(req[r].rawBuf, MaxSide),
                          ![r].rawBuf = NoImage]
    /\ UNCHANGED <<now, users, inspections, usageLogs>>

\* uploadBufferToBlob returns; the model is invoked
Upload(r) ==
    /\ req[r].pc = "upload"
    /\ req' = [req EXCEPT ![r].finalUrl = TRUE, ![r].pc = "model",
                          ![r].calls = @ + 1,
                          ![r].webp = [width |-> 0, height |-> 0]]
    /\ UNCHANGED <<now, users, inspections, usageLogs>>

\* openai.chat.completions.create returns the completion a;
\* then the validation of lines 202-212
Model(r, a) ==
    /\ req[r].pc = "model"
    /\ req' = [req EXCEPT ![r] =
            IF ParsesAnalysis(a)
              THEN [req[r] EXCEPT !.answer = a, !.pc = "insert_inspection"]
              ELSE Respond(r, 502)]
    /\ UNCHANGED <<now, users, inspections, usageLogs>>

\* the row with hazard_count left to the column's default
InspectionRow_DefaultCount(r) ==
    [userId |-> req[r].appUser,
     hazardCount |-> 0,
     riskScore |-> req[r].answer.riskScore,
     safetyGrade |-> req[r].answer.safetyGrade,
     analysisResults |-> req[r].answer,
     processingStatus |-> "completed",
     errorMessage |-> "",
     createdAt |-> now,
     id |-> r]

\* the row with processing_status left to the column's default
InspectionRow_DefaultStatus(r) ==
    [userId |-> req[r].appUser,
     hazardCount |-> Len(req[r].answer.hazards),
     riskScore |-> req[r].answer.riskScore,
     safetyGrade |-> req[r].answer.safetyGrade,
     analysisResults |-> req[r].answer,
     processingStatus |-> "pending",
     errorMessage |-> "",
     createdAt |-> now,
     id |-> r]

\* the row of lines 216-227
InspectionRow(r) ==
    [userId |-> req[r].appUser,
     hazardCount |-> Len(req[r].answer.hazards),
     riskScore |-> req[r].answer.riskScore,
     safetyGrade |-> req[r].answer.safetyGrade,
     analysisResults |-> req[r].answer,
     processingStatus |-> "completed",
     errorMessage |-> "",
     createdAt |-> now,
     id |-> r]

\* db.insert(inspections) returns
InsertInspection(r) ==
    /\ req[r].pc = "insert_inspection"
    /\ inspections' = inspections \cup {InspectionRow(r)}
    /\ req' = [req EXCEPT ![r].pc = "incr_select"]
    /\ UNCHANGED <<now, users, usageLogs>>

\* the counters of a row of users, as a handler holds them
ReadRow(uid) ==
    [inspectionCount |-> users[uid].inspectionCount,
     monthlyInspectionCount |-> users[uid].monthlyInspectionCount,
     lastResetDate |-> users[uid].lastResetDate]

\* incrementUserInspectionCounters: the select returns, `now` is read
IncrSelect(r) ==
    /\ req[r].pc = "incr_select"
    /\ LET uid == req[r].appUser
       IN req' = [req EXCEPT ![r] =
            IF uid \in DOMAIN users
              THEN [req[r] EXCEPT !.row = ReadRow(uid), !.rowNow = now,
                                  !.pc = "incr_update"]
              ELSE [req[r] EXCEPT !.pc = "log"]]
    /\ UNCHANGED <<now, users, inspections, usageLogs>>

\* incrementUserInspectionCounters: lines 77-83 and the update of lines
\* 85-93
IncrUpdate(r) ==
    /\ req[r].pc = "incr_update"
    /\ LET uid == req[r].appUser
           set == IncrementOf(req[r].row, req[r].rowNow)
       IN /\ users' = [users EXCEPT ![uid] =
                 [@ EXCEPT !.inspectionCount = set.inspectionCount,
                           !.monthlyInspectionCount = set.monthlyInspectionCount,
                           !.lastResetDate = set.lastResetDate]]
          /\ req' = [req EXCEPT ![r].pc = "log", ![r].incs = @ + 1,
                                ![r].row = NoRow, ![r].rowNow = 0]
    /\ UNCHANGED <<now, inspections, usageLogs>>

\* the row of lines 241-249
SuccessLog(r) ==
    [userId |-> req[r].appUser, success |-> TRUE,
     tokensUsed |-> IF req[r].answer.usage THEN "number" ELSE "null",
     errorType |-> "", id |-> r]

\* the row of lines 266-273
FailureLog(r) ==
    [userId |-> req[r].appUser, success |-> FALSE, tokensUsed |-> "null",
     errorType |-> "Error", id |-> r]

\* db.insert(usageLogs) of the success path returns; the 200
LogSuccess(r) ==
    /\ req[r].pc = "log"
    /\ usageLogs' = usageLogs \cup {SuccessLog(r)}
    /\ req' = [req EXCEPT ![r] = Respond(r, 200)]
    /\ UNCHANGED <<now, users, inspections>>

\* db.insert(usageLogs) of the catch block returns; the error response
LogFailure(r) ==
    /\ req[r].pc = "fail_log"
    /\ usageLogs' = usageLogs \cup {FailureLog(r)}
    /\ req' = [req EXCEPT ![r] = Respond(r, ErrorStatus(req[r].errStatus))]
    /\ UNCHANGED <<now, users, inspections>>

\* An awaited call rejects: the database, the identity provider, sharp, the
\* object storage or the model client throws.  Only the model client's
\* errors carry an authentication status.
Throw(r, st) ==
    /\ req[r].pc \in (IF r \in Readers THEN GetAwaits
                      ELSE IF req[r].inCatch THEN CatchAwaits ELSE TryAwaits)
    /\ st # 0 => (req[r].pc = "model")
    /\ req' = [req EXCEPT ![r] = Raise(r, st)]
    /\ UNCHANGED <<now, users, inspections, usageLogs>>

----------------------------------------------------------------------------
(* GET /:id *)

\* the handler is entered: getAuth (lines 306-310)
GetById(r, clerk, id) ==
    /\ req[r].pc = "idle"
    /\ LET fresh == [IdleReq EXCEPT !.clerk = clerk]
       IN req' = [req EXCEPT ![r] =
            IF clerk = NoClerk
              THEN [fresh EXCEPT !.pc = "done", !.status = 401]
              ELSE [fresh EXCEPT !.pc = "user_select", !.target = id]]
    /\ UNCHANGED <<now, users, inspections, usageLogs>>

\* db.select().from(inspections).where(eq(inspections.id, id)).limit(1)
SelectById(id) == {i \in inspections : i.id = id.n}

\* the select of line 313 returns, or rejects an id the uuid column cannot
\* be compared with; then lines 314-318
GetSelect(r) ==
    /\ req[r].pc = "select_inspection"
    /\ LET rows == SelectById(req[r].target)
           over == [req[r] EXCEPT !.pc = "done", !.target = NotUuid]
       IN req' = [req EXCEPT ![r] =
            IF ~req[r].target.uuid
              THEN Unhandled(r)
            ELSE IF rows = {}
              THEN [over EXCEPT !.status = 404]
            ELSE IF \E i \in rows : i.userId # req[r].appUser
              THEN [over EXCEPT !.status = 403]
            ELSE [over EXCEPT !.status = 200, !.body = rows]]
    /\ UNCHANGED <<now, users, inspections, usageLogs>>

----------------------------------------------------------------------------
(* The admin routes *)

\* a role that any value of appRole satisfies
IsSuperadmin_AnyRole(role) == role # "none"

\* role === "superadmin"
IsSuperadmin(role) == role = "superadmin"

\* UpdateUserSchema.safeParse(req.body).success
UpdateUserOk(p) ==
    /\ p.fields # {}
    /\ "monthlyInspectionCount" \in p.fields => p.monthlyInspectionCount >= 0

\* ensureSuperadmin is entered: getAuth
AdminReceive(r, route, clerk, id, p) ==
    /\ req[r].pc = "idle"
    /\ LET fresh == [IdleReq EXCEPT !.clerk = clerk, !.route = route]
       IN req' = [req EXCEPT ![r] =
            IF clerk = NoClerk
              THEN [fresh EXCEPT !.pc = "done", !.status = 401]
              ELSE [fresh EXCEPT !.pc = "role", !.target = id, !.patch = p]]
    /\ UNCHANGED <<now, users, inspections, usageLogs>>

\* ensureSuperadmin: clerkClient.users.getUser returns a user with appRole
\* `role`; on next() the route's body runs up to its first await
EnsureSuperadmin(r, role) ==
    /\ req[r].pc = "role"
    /\ LET told == [req[r] EXCEPT !.role = role]
           over == [told EXCEPT !.pc = "done", !.target = NotUuid,
                                !.patch = NoPatch]
       IN req' = [req EXCEPT ![r] =
            IF ~IsSuperadmin(role)
              THEN [over EXCEPT !.status = 403]
            ELSE IF req[r].route = "patch" /\ ~UpdateUserOk(req[r].patch)
              THEN [over EXCEPT !.status = 400]
            ELSE [told EXCEPT !.pc = "query"]]
    /\ UNCHANGED <<now, users, inspections, usageLogs>>

\* a select of GET /admin/stats, GET /admin/all or GET /admin/ returns: the
\* first of two, or the last, which is followed by the 200
AdminSelect(r) ==
    /\ req[r].pc \in {"query", "query2"}
    /\ req[r].route \in {"stats", "all", "users"}
    /\ req' = [req EXCEPT ![r] =
            IF req[r].pc = "query" /\ req[r].route \in {"stats", "all"}
              THEN [req[r] EXCEPT !.pc = "query2", !.ran = @ + 1]
              ELSE [req[r] EXCEPT !.pc = "done", !.status = 200, !.ran = @ + 1,
                                  !.target = NotUuid]]
    /\ UNCHANGED <<now, users, inspections, usageLogs>>

\* the row of users with the fields of the body set
Patched(row, p) ==
    [row EXCEPT
       !.isActive = IF "isActive" \in p.fields THEN p.isActive ELSE @,
       !.monthlyInspectionCount =
           IF "monthlyInspectionCount" \in p.fields
             THEN p.monthlyInspectionCount ELSE @,
       !.lastResetDate =
           IF "lastResetDate" \in p.fields THEN p.lastResetDate ELSE @]

\* PATCH /admin/:id: the update returns
PatchUser(r) ==
    /\ req[r].pc = "query"
    /\ req[r].route = "patch"
    /\ LET id == req[r].target.n
           over == [req[r] EXCEPT !.pc = "done", !.ran = @ + 1,
                                  !.target = NotUuid, !.patch = NoPatch]
       IN IF id \in DOMAIN users
            THEN /\ users' = [users EXCEPT ![id] = Patched(@, req[r].patch)]
                 /\ req' = [req EXCEPT ![r] = [over EXCEPT !.status = 200]]
            ELSE /\ users' = users
                 /\ req' = [req EXCEPT ![r] = [over EXCEPT !.status = 404]]
    /\ UNCHANGED <<now, inspections, usageLogs>>

\* an awaited call of an admin request rejects: ensureSuperadmin and the
\* routes of users.ts catch and answer 500, the routes of inspections.ts
\* have no try/catch
AdminThrow(r) ==
    /\ req[r].pc \in {"role", "query", "query2"}
    /\ req' = [req EXCEPT ![r] =
            IF req[r].pc = "role" \/ req[r].route \in {"users", "patch"}
              THEN [req[r] EXCEPT !.pc = "done", !.status = 500,
                                  !.target = NotUuid, !.patch = NoPatch]
              ELSE [Unhandled(r) EXCEPT !.patch = NoPatch]]
    /\ UNCHANGED <<now, users, inspections, usageLogs>>

----------------------------------------------------------------------------
(* POST /api/webhooks *)

\* UserService.updateUser: the columns set are email, names, image and
\* updatedAt; the columns of the model are left as they are
HookUpdated(row) == row

\* UserService.deleteUser: set({isActive: false, updatedAt})
HookDeleted(row) == [row EXCEPT !.isActive = FALSE]

\* UserService.createUser up to its insert: without an address it returns
\* null and the handler answers 200
CreateUser(delivery, mail) ==
    IF mail THEN [delivery EXCEPT !.pc = "hook_insert", !.email = FALSE]
    ELSE [delivery EXCEPT !.pc = "done", !.status = 200, !.email = FALSE]

\* A delivery arrives and verifyWebhook settles: a rejected signature is
\* answered 401 or 500 by the message of the error, a verified event goes to
\* the case of its type.
HookReceive(h, verified, type, id, mail) ==
    /\ req[h].pc \in {"idle", "done"}
    /\ LET fresh == [IdleReq EXCEPT !.clerk = id, !.event = type]
       IN IF ~verified
            THEN \E st \in {401, 500} :
                   req' = [req EXCEPT ![h] =
                             [IdleReq EXCEPT !.pc = "done", !.status = st]]
            ELSE req' = [req EXCEPT ![h] =
                   IF type = "user.created"
                     THEN CreateUser(fresh, mail)
                   ELSE IF type = "user.updated"
                     THEN [fresh EXCEPT !.pc = "hook_update", !.email = mail]
                   ELSE IF type = "user.deleted"
                     THEN [fresh EXCEPT !.pc = "hook_delete"]
                   ELSE [fresh EXCEPT !.pc = "done", !.status = 200]]
    /\ UNCHANGED <<now, users, inspections, usageLogs>>

\* UserService.createUser: the insert returns, or the unique key
\* clerk_user_id rejects it and the handler answers 500
HookInsert(h) ==
    /\ req[h].pc = "hook_insert"
    /\ IF UniqueViolation(req[h].clerk)
         THEN /\ users' = users
              /\ req' = [req EXCEPT ![h].pc = "done", ![h].status = 500]
         ELSE /\ users' = Append(users, UserRow(req[h].clerk, now))
              /\ req' = [req EXCEPT ![h].pc = "done", ![h].status = 200,
                                    ![h].made = @ + 1]
    /\ UNCHANGED <<now, inspections, usageLogs>>

\* UserService.updateUser: the update returns; without a row it goes on to
\* createUser
HookUpdate(h) ==
    /\ req[h].pc = "hook_update"
    /\ LET rows == SelectByClerk(req[h].clerk)
       IN /\ users' = [i \in DOMAIN users |->
                         IF i \in rows THEN HookUpdated(users[i]) ELSE users[i]]
          /\ req' = [req EXCEPT ![h] =
                IF rows # {}
                  THEN [req[h] EXCEPT !.pc = "done", !.status = 200,
                                      !.email = FALSE]
                  ELSE CreateUser(req[h], req[h].email)]
    /\ UNCHANGED <<now, inspections, usageLogs>>

\* UserService.deleteUser: the update returns
HookDelete(h) ==
    /\ req[h].pc = "hook_delete"
    /\ users' = [i \in DOMAIN users |->
                   IF i \in SelectByClerk(req[h].clerk)
                     THEN HookDeleted(users[i]) ELSE users[i]]
    /\ req' = [req EXCEPT ![h].pc = "done", ![h].status = 200]
    /\ UNCHANGED <<now, inspections, usageLogs>>

\* the database rejects the statement a delivery awaits: the catch block
\* answers 500
HookThrow(h) ==
    /\ req[h].pc \in {"hook_insert", "hook_update", "hook_delete"}
    /\ req' = [req EXCEPT ![h].pc = "done", ![h].status = 500, ![h].email = FALSE]
    /\ UNCHANGED <<now, users, inspections, usageLogs>>

\* the deliveries and their resumptions
Webhooks ==
    \/ \E h \in Hooks, v \in BOOLEAN, t \in EventTypes, id \in ClerkIds,
          m \in BOOLEAN : HookReceive(h, v, t, id, m)
    \/ \E h \in Hooks : HookInsert(h)
    \/ \E h \in Hooks : HookUpdate(h)
    \/ \E h \in Hooks : HookDelete(h)
    \/ \E h \in Hooks : HookThrow(h)

----------------------------------------------------------------------------

\* a month boundary passes
Tick ==
    /\ now < MaxMonth
    /\ now' = now + 1
    /\ UNCHANGED <<users, inspections, usageLogs, req>>

\* the resumptions of the handlers in flight among the requests R
Handlers(R) ==
    \/ \E r \in R : UserSelect(r)
    \/ \E r \in R : UserClerk(r)
    \/ \E r \in R : UserInsert(r)
    \/ \E r \in R : QuotaCheck(r)
    \/ \E r \in R : Compress(r)
    \/ \E r \in R : Upload(r)
    \/ \E r \in R, a \in ModelAnswers : Model(r, a)
    \/ \E r \in R : InsertInspection(r)
    \/ \E r \in R : IncrSelect(r)
    \/ \E r \in R : IncrUpdate(r)
    \/ \E r \in R : LogSuccess(r)
    \/ \E r \in R : LogFailure(r)
    \/ \E r \in R, st \in ErrStatuses : Throw(r, st)

\* the resumptions of the POST /analyze handlers
Steps == Handlers(Reqs)

\* the first POST /analyze request of a run
First == {r \in Reqs : \A q \in Reqs : r <= q}

\* the app: requests reach the router through express.json
Next ==
    \/ \E r \in Reqs, q \in Requests : Receive(r, q[1], q[2], q[3])
    \/ Steps
    \/ Tick

Spec == Init /\ [][Next]_vars

\* the router of src/routes/inspections.ts by itself, handed parsed bodies of
\* any size
RouterNext ==
    \/ \E r \in Reqs, q \in Requests : Analyze(r, q[1], q[2], q[3])
    \/ Steps
    \/ Tick

\* The normalizer on its own: a request of an existing user holds the
\* decoded photo and awaits compressToWebP, then the upload.
NormInit ==
    /\ now = 0
    /\ users = << UserRow("ca", 0) >>
    /\ inspections = {}
    /\ usageLogs = {}
    /\ \E img \in Images :
          req = [r \in Reqs \cup Readers \cup Admins \cup Racers \cup Hooks |->
                   IF r \in First
                     THEN [IdleReq EXCEPT !.pc = "compress", !.clerk = "ca",
                                          !.appUser = 1, !.rawBuf = img]
                     ELSE IdleReq]

NormNext ==
    \/ \E r \in First : Compress(r)
    \/ \E r \in First : Upload(r)

NormSpec == NormInit /\ [][NormNext]_vars

\* Every awaited call settles and the event loop resumes the handler that
\* awaits it.
LiveSpec == Spec /\ WF_vars(Steps)

RouterSpec == Init /\ [][RouterNext]_vars

\* the app serving a GET /:id request while a POST /analyze request runs
GetNext ==
    \/ \E r \in Readers, c \in GetCallers, id \in GetIds : GetById(r, c, id)
    \/ \E r \in Readers : GetSelect(r)
    \/ \E r \in First, q \in Requests : Receive(r, q[1], q[2], q[3])
    \/ Handlers(First \cup Readers)
    \/ Tick

GetSpec == Init /\ [][GetNext]_vars

\* the app serving an admin request while a POST /analyze request runs
AdminNext ==
    \/ \E r \in Admins, q \in AdminRequests :
          AdminReceive(r, q[1], q[2], q[3], q[4])
    \/ \E r \in Admins, role \in AppRoles : EnsureSuperadmin(r, role)
    \/ \E r \in Admins : AdminSelect(r)
    \/ \E r \in Admins : PatchUser(r)
    \/ \E r \in Admins : AdminThrow(r)
    \/ \E r \in First, q \in Requests : Receive(r, q[1], q[2], q[3])
    \/ Handlers(First)
    \/ Tick

AdminSpec == Init /\ [][AdminNext]_vars

\* the app when the requests of the user do not overlap: a request is sent
\* only after the one before it was answered
SeqNext ==
    \/ \E r \in Reqs, q \in Requests :
          /\ \A o \in Reqs : ~InFlight(o)
          /\ Receive(r, q[1], q[2], q[3])
    \/ Steps
    \/ Tick

SeqSpec == Init /\ [][SeqNext]_vars

\* Three POST /analyze requests of one user, each with an imageUrl, in
\* flight together; the user has a row with no inspection counted, every
\* awaited call succeeds and the model answers with a well-formed report.
RaceInit ==
    /\ now = 0
    /\ users = << UserRow("ca", 0) >>
    /\ inspections = {}
    /\ usageLogs = {}
    /\ req = [r \in Reqs \cup Readers \cup Admins \cup Racers \cup Hooks |-> IdleReq]

RaceNext ==
    \/ \E r \in Reqs \cup Racers : Analyze(r, "ca", "url", NoImageData)
    \/ \E r \in Reqs \cup Racers : UserSelect(r)
    \/ \E r \in Reqs \cup Racers : QuotaCheck(r)
    \/ \E r \in Reqs \cup Racers :
          Model(r, Answer(TRUE, TRUE, "A", 10, <<>>, FALSE))
    \/ \E r \in Reqs \cup Racers : InsertInspection(r)
    \/ \E r \in Reqs \cup Racers : IncrSelect(r)
    \/ \E r \in Reqs \cup Racers : IncrUpdate(r)
    \/ \E r \in Reqs \cup Racers : LogSuccess(r)

RaceSpec == RaceInit /\ [][RaceNext]_vars

\* the app serving the deliveries of the identity provider while two POST
\* /analyze requests with an imageUrl run
HookNext ==
    \/ Webhooks
    \/ \E r \in Reqs : Receive(r, "ca", "url", NoImageData)
    \/ \E r \in Reqs : UserSelect(r)
    \/ \E r \in Reqs : UserClerk(r)
    \/ \E r \in Reqs : UserInsert(r)
    \/ \E r \in Reqs : QuotaCheck(r)
    \/ \E r \in Reqs, a \in ModelAnswers : Model(r, a)
    \/ \E r \in Reqs : InsertInspection(r)
    \/ \E r \in Reqs : IncrSelect(r)
    \/ \E r \in Reqs : IncrUpdate(r)
    \/ \E r \in Reqs : LogSuccess(r)
    \/ \E r \in Reqs : LogFailure(r)
    \/ Tick

HookSpec == Init /\ [][HookNext]_vars

\* the app serving the deliveries of the identity provider while a POST
\* /analyze request with an imageUrl and a GET /:id request run
IdentityNext ==
    \/ Webhooks
    \/ \E r \in Readers, c \in GetCallers, id \in GetIds : GetById(r, c, id)
    \/ \E r \in Readers : GetSelect(r)
    \/ \E r \in First : Receive(r, "ca", "url", NoImageData)
    \/ \E r \in First \cup Readers : UserSelect(r)
    \/ \E r \in First \cup Readers : UserClerk(r)
    \/ \E r \in First \cup Readers : UserInsert(r)
    \/ \E r \in First : QuotaCheck(r)
    \/ \E r \in First, a \in ModelAnswers : Model(r, a)
    \/ \E r \in First : InsertInspection(r)
    \/ \E r \in First : IncrSelect(r)
    \/ \E r \in First : IncrUpdate(r)
    \/ \E r \in First : LogSuccess(r)
    \/ \E r \in First : LogFailure(r)

IdentitySpec == Init /\ [][IdentityNext]_vars

\* the app serving the deliveries of the identity provider and a PATCH
\* /admin/:id request while a POST /analyze request with an imageUrl runs
FlagNext ==
    \/ Webhooks
    \/ \E r \in Admins, p \in Patches :
          AdminReceive(r, "patch", "cb", Uuid(1), p)
    \/ \E r \in Admins, role \in AppRoles : EnsureSuperadmin(r, role)
    \/ \E r \in Admins : PatchUser(r)
    \/ \E r \in First : Receive(r, "ca", "url", NoImageData)
    \/ \E r \in First : UserSelect(r)
    \/ \E r \in First : UserClerk(r)
    \/ \E r \in First : UserInsert(r)
    \/ \E r \in First : QuotaCheck(r)
    \/ \E r \in First, a \in ModelAnswers : Model(r, a)
    \/ \E r \in First : InsertInspection(r)
    \/ \E r \in First : IncrSelect(r)
    \/ \E r \in First : IncrUpdate(r)
    \/ \E r \in First : LogSuccess(r)
    \/ \E r \in First : LogFailure(r)
    \/ Tick

FlagSpec == Init /\ [][FlagNext]_vars

----------------------------------------------------------------------------
(* Properties *)

\* what request r has inserted
InspectionsOf(r) == {i \in inspections : i.id = r}
LogsOf(r) == {l \in usageLogs : l.id = r}

Done(r) == req[r].pc = "done"

\* the user row of request r exists
HasRow(r) == req[r].appUser \in DOMAIN users

\* The effective monthly count as the specification words it: the stored
\* count if lastResetDate lies in the month of `month`, zero otherwise.
EffectiveCount(row, month) ==
    IF row.lastResetDate = month THEN row.monthlyInspectionCount ELSE 0

\* completed inspections of user uid created in the month `month`
CompletedIn(uid, month) ==
    {i \in inspections : /\ i.userId = uid
                         /\ i.processingStatus = "completed"
                         /\ i.createdAt = month}

\* C1: a request whose admission check finds the stored monthly count equal
\* to the limit, with lastResetDate in the current month, is answered 429 by
\* that step, which writes no table; and a request answered 429 has inserted
\* no Inspection row and executed no counter update.
C1_AtLimitRejected ==
    /\ [][\A r \in Reqs :
            (/\ QuotaCheck(r)
             /\ HasRow(r)
             /\ users[req[r].appUser].lastResetDate = now
             /\ users[req[r].appUser].monthlyInspectionCount
                    = MONTHLY_INSPECTION_LIMIT)
            => /\ req'[r].pc = "done"
               /\ req'[r].status = 429
               /\ users' = users
               /\ inspections' = inspections]_vars
    /\ [](\A r \in Reqs :
            req[r].status = 429 => InspectionsOf(r) = {} /\ req[r].incs = 0)

\* C1 witness: a request of a user at the limit in the current month has
\* been answered 429.
C1_Witness ==
    \E r \in Reqs :
        /\ Done(r) /\ req[r].status = 429
        /\ HasRow(r)
        /\ users[req[r].appUser].lastResetDate = now
        /\ users[req[r].appUser].monthlyInspectionCount = MONTHLY_INSPECTION_LIMIT
        /\ InspectionsOf(r) = {}

\* the monthly count before request r's counter update is what the update's
\* own select had read
RowUnchangedSinceRead(r) ==
    /\ HasRow(r)
    /\ ReadRow(req[r].appUser) = req[r].row

\* C2 as claimed: a request that finds the monthly count below the limit is
\* not answered 429, and the counter update of a request leaves the stored
\* monthlyInspectionCount exactly one greater than it was before.
C2_StoredCountPlusOne ==
    [][\A r \in Reqs :
         /\ (/\ QuotaCheck(r)
             /\ HasRow(r)
             /\ EffectiveCount(users[req[r].appUser], now)
                    < MONTHLY_INSPECTION_LIMIT)
            => req'[r].status # 429
         /\ (IncrUpdate(r) /\ RowUnchangedSinceRead(r))
            => users'[req[r].appUser].monthlyInspectionCount
                 = users[req[r].appUser].monthlyInspectionCount + 1]_vars

\* C2 amended: a request that finds the effective monthly count below the
\* limit is not answered 429, and its counter update stores the effective
\* monthly count of the row its increment read, plus one: the stored count
\* plus one when lastResetDate is in the month the increment ran in, and one
\* after a month boundary.
C2_EffectiveCountPlusOne ==
    [][\A r \in Reqs :
         /\ (/\ QuotaCheck(r)
             /\ HasRow(r)
             /\ EffectiveCount(users[req[r].appUser], now)
                    < MONTHLY_INSPECTION_LIMIT)
            => req'[r].status # 429
         /\ IncrUpdate(r)
            => users'[req[r].appUser].monthlyInspectionCount
                 = EffectiveCount(req[r].row, req[r].rowNow) + 1]_vars

\* C2 witness: a request has completed with 200 after a month boundary: the
\* user had inspections before, and the stored monthly count is 1.
C2_Witness ==
    \E r \in Reqs :
        /\ Done(r) /\ req[r].status = 200 /\ req[r].incs = 1
        /\ HasRow(r)
        /\ users[req[r].appUser].inspectionCount >= 2
        /\ users[req[r].appUser].lastResetDate = now
        /\ now > 0
        /\ users[req[r].appUser].monthlyInspectionCount = 1

\* C3: a request whose admission check finds lastResetDate in an earlier
\* month and the stored monthly count at or above the limit is admitted: it
\* is not answered 429 and goes on to the image.
C3_MonthBoundaryAdmits ==
    [][\A r \in Reqs :
         (/\ QuotaCheck(r)
          /\ HasRow(r)
          /\ users[req[r].appUser].lastResetDate < now
          /\ users[req[r].appUser].monthlyInspectionCount
                 >= MONTHLY_INSPECTION_LIMIT)
         => /\ req'[r].status # 429
            /\ req'[r].pc \in {"compress", "model"}]_vars

\* C3 witness: a user at the limit since an earlier month has a request
\* past the admission check.
C3_Witness ==
    \E r \in Reqs :
        /\ req[r].pc \in {"compress", "model"}
        /\ HasRow(r)
        /\ users[req[r].appUser].lastResetDate < now
        /\ users[req[r].appUser].monthlyInspectionCount
               >= MONTHLY_INSPECTION_LIMIT

\* C4 as claimed: a finished request has executed its counter update exactly
\* once if it produced a completed Inspection, and not at all if it was
\* answered with anything but 200.
C4_IncrementOncePerCompletion ==
    \A r \in Reqs :
        Done(r) =>
            /\ req[r].incs <= 1
            /\ (\E i \in InspectionsOf(r) : i.processingStatus = "completed")
                   => req[r].incs = 1
            /\ req[r].status # 200 => req[r].incs = 0

\* the inspections the run started with
PastInspections == {i \in inspections : i.id < 0}

\* C5 as claimed: once the requests of a run have all finished, every one
\* that wrote the counters having been answered 200, and no month boundary
\* has passed, the user's lifetime and monthly counters are each higher than
\* at the start by the number of requests answered 200.
C5_NoLostIncrement ==
    (/\ \A r \in Reqs : Done(r)
     /\ \A r \in Reqs : req[r].status # 200 => req[r].incs = 0
     /\ now = 0
     /\ users # <<>>)
    => LET n == Cardinality({r \in Reqs : req[r].status = 200})
           k == Cardinality(PastInspections)
       IN \A uid \in DOMAIN users :
            /\ users[uid].inspectionCount = k + n
            /\ users[uid].monthlyInspectionCount = k + n

\* C6: the admission check decides on the stored row alone, whatever other
\* requests of the user are in flight: it answers 429 exactly when the
\* effective monthly count of the row is at or above the limit.
C6_AdmissionReadsStoredCountOnly ==
    [][\A r \in Reqs :
         (QuotaCheck(r) /\ HasRow(r))
         => ((req'[r].status = 429)
               <=> (EffectiveCount(users[req[r].appUser], now)
                        >= MONTHLY_INSPECTION_LIMIT))]_vars

\* C6 witness: two requests of one user were both answered 200 within one
\* month and that month holds more completed inspections of the user than
\* the limit.
C6_Witness ==
    /\ now = 0
    /\ \A r \in Reqs : Done(r) /\ req[r].status = 200 /\ req[r].appUser = 1
    /\ Cardinality(CompletedIn(1, 0)) > MONTHLY_INSPECTION_LIMIT

\* a completion the schema must reject: no JSON, no overallAssessment, a
\* safety grade or hazard enum value outside its enum, a score or priority
\* out of range
Malformed(a) ==
    \/ ~a.json
    \/ ~a.hasOverall
    \/ a.safetyGrade \notin {"A", "B", "C", "D", "F"}
    \/ a.riskScore < 0 \/ a.riskScore > 100
    \/ \E i \in DOMAIN a.hazards :
         \/ a.hazards[i].category \notin HazardCategoryEnum
         \/ a.hazards[i].severity \notin HazardSeverityEnum
         \/ a.hazards[i].priority < 1 \/ a.hazards[i].priority > 10

\* C7: when the model returns a malformed completion the request is answered
\* 502 at once, without a write; a request answered 502 has inserted no
\* Inspection row and executed no counter update.
C7_MalformedOutput502 ==
    /\ [][\A r \in Reqs : \A a \in ModelAnswers :
            (Model(r, a) /\ Malformed(a))
            => /\ req'[r].pc = "done" /\ req'[r].status = 502
               /\ inspections' = inspections
               /\ users' = users]_vars
    /\ [](\A r \in Reqs :
            req[r].status = 502 => InspectionsOf(r) = {} /\ req[r].incs = 0)

\* C7 witness: a request that called the model was answered 502.
C7_Witness ==
    \E r \in Reqs : Done(r) /\ req[r].status = 502 /\ req[r].calls = 1

\* C8 as claimed: a finished request that invoked the model has left exactly
\* one Inspection row: completed if it was answered 200, failed with an error
\* message if it was answered 502.
C8_OneInspectionPerModelCall ==
    \A r \in Reqs :
        (Done(r) /\ req[r].calls > 0) =>
            /\ Cardinality(InspectionsOf(r)) = 1
            /\ req[r].status = 200
                   => \A i \in InspectionsOf(r) : i.processingStatus = "completed"
            /\ req[r].status = 502
                   => \A i \in InspectionsOf(r) :
                          i.processingStatus = "failed" /\ i.errorMessage # ""

\* C9 as claimed: a finished request that was answered by the pipeline with
\* 200, 429, 413 or 502 has appended exactly one UsageLog row, with
\* success=true and the token usage for 200, with success=false and an error
\* kind otherwise.
C9_OneUsageLogPerInvocation ==
    \A r \in Reqs :
        (Done(r) /\ req[r].status \in {200, 429, 413, 502}) =>
            /\ Cardinality(LogsOf(r)) = 1
            /\ \A l \in LogsOf(r) :
                 IF req[r].status = 200
                   THEN l.success /\ l.tokensUsed = "number"
                   ELSE ~l.success /\ l.errorType # ""

\* C10 as claimed: a finished request whose imageData decodes to more than
\* 8 MB was answered 413 and invoked neither the upload nor the model.
C10_LargeImage413 ==
    \A r \in Reqs :
        (/\ Done(r)
         /\ req[r].data.present
         /\ DecodedBytes(req[r].data.len) > MAX_IMAGE_BYTES)
        => /\ req[r].status = 413
           /\ req[r].puts = 0
           /\ req[r].calls = 0

BadPayload(url, data) ==
    \/ url = "notaurl"
    \/ data.present /\ data.len = 0
    \/ url = "none" /\ ~data.present

\* request r has caused no side effect: no read of the database has returned
\* to it, it has written no table and invoked neither the upload nor the model
NoSideEffect(r) ==
    /\ req[r].appUser = 0
    /\ req[r].made = 0
    /\ req[r].incs = 0
    /\ req[r].puts = 0
    /\ req[r].calls = 0
    /\ InspectionsOf(r) = {}
    /\ LogsOf(r) = {}

\* C12: a request without a session is answered 401 and a request with a
\* malformed or missing payload 400 (401 if it has no session either) by the
\* step that receives it, which touches no table; and a request rejected so
\* has caused no side effect.
C12_RejectedAtEntryNoSideEffect ==
    /\ [][\A r \in Reqs : \A q \in Requests :
            (/\ Receive(r, q[1], q[2], q[3])
             /\ BodyBytes(q[2], q[3]) <= JSON_BODY_LIMIT
             /\ q[1] = NoClerk \/ BadPayload(q[2], q[3]))
            => /\ req'[r].pc = "done"
               /\ req'[r].status = (IF q[1] = NoClerk THEN 401 ELSE 400)
               /\ UNCHANGED <<users, inspections, usageLogs>>]_vars
    /\ [](\A r \in Reqs :
            (\/ req[r].status = 400
             \/ req[r].status = 401 /\ req[r].clerk = NoClerk)
            => NoSideEffect(r))

\* C12 witness: one request was answered 400 and one 401 for want of a
\* session, and the database is as empty as it was.
C12_Witness ==
    /\ \E r \in Reqs : Done(r) /\ req[r].status = 400 /\ req[r].clerk # NoClerk
    /\ \E r \in Reqs : Done(r) /\ req[r].status = 401 /\ req[r].clerk = NoClerk
    /\ users = <<>>
    /\ usageLogs = {}

\* C13: every Inspection row's hazardCount is the length of the hazards list
\* of its stored analysisResults.
C13_HazardCountIsLength ==
    \A i \in inspections : i.hazardCount = Len(i.analysisResults.hazards)

\* C13 witness: a request has stored an Inspection whose analysis lists a
\* hazard, and one whose analysis lists none.
C13_Witness ==
    /\ \E i \in inspections :
          i.id > 0 /\ i.hazardCount = 1 /\ Len(i.analysisResults.hazards) = 1
    /\ \E i \in inspections :
          i.id > 0 /\ i.hazardCount = 0 /\ i.analysisResults.hazards = <<>>

\* C14: an Inspection row that has a safetyGrade has processingStatus
\* 'completed'.
C14_GradeOnlyIfCompleted ==
    \A i \in inspections :
        i.safetyGrade # "" => i.processingStatus = "completed"

\* C14 witness: a request has stored an Inspection with a safety grade.
C14_Witness ==
    \E i \in inspections :
        i.id > 0 /\ i.safetyGrade \in SafetyGradeEnum
                 /\ i.processingStatus = "completed"

\* the upload of request r was invoked and failed: the model is invoked by
\* the very step in which an upload returns
UploadFailed(r) == Done(r) /\ req[r].puts = 1 /\ req[r].calls = 0

\* C15: when the upload rejects, the handler enters its catch block, which
\* goes on to record the failure, and nothing is written or called by that
\* step; the finished request has not called the model, has left no
\* Inspection row and no counter update, has at most one usage log, of a
\* failure, and was answered with an error status.
C15_UploadFailureStops ==
    /\ [][\A r \in Reqs :
            (req[r].pc = "upload" /\ Throw(r, 0))
            => /\ req'[r].inCatch
               /\ req'[r].pc = "user_select"
               /\ req'[r].calls = 0
               /\ UNCHANGED <<users, inspections, usageLogs>>]_vars
    /\ [](\A r \in Reqs :
            UploadFailed(r)
            => /\ req[r].status >= 400
               /\ InspectionsOf(r) = {}
               /\ req[r].incs = 0
               /\ Cardinality(LogsOf(r)) <= 1
               /\ \A l \in LogsOf(r) : ~l.success)

\* C15 witness: a request whose upload failed was answered 500 and has left
\* its failure log.
C15_Witness ==
    \E r \in Reqs :
        /\ UploadFailed(r)
        /\ req[r].status = 500
        /\ \E l \in LogsOf(r) : ~l.success
        /\ InspectionsOf(r) = {}

\* C16 as claimed: when the usage-log insert of the catch block rejects, the
\* response is the error response of the caught exception; and a finished
\* request that has stored its Inspection and incremented the counters, with
\* nothing but the usage-log insert left to fail, was answered 200.
C16_LogFailureNeverMasks ==
    /\ [][\A r \in Reqs :
            (req[r].pc = "fail_log" /\ Throw(r, 0))
            => /\ req'[r].pc = "done"
               /\ req'[r].status =
                     (IF req[r].errStatus \in {401, 403} THEN req[r].errStatus
                                                          ELSE 500)]_vars
    /\ [](\A r \in Reqs :
            (Done(r) /\ InspectionsOf(r) # {} /\ req[r].incs = 1)
            => req[r].status = 200)

\* C17 as claimed: a finished request that was answered with an error status
\* has left no completed Inspection row and no counter update behind.
C17_NoPartialPersistence ==
    \A r \in Reqs :
        (Done(r) /\ req[r].status >= 400)
        => /\ \A i \in InspectionsOf(r) : i.processingStatus # "completed"
           /\ req[r].incs = 0

\* C18 as claimed: a body with neither imageUrl nor imageData, or with both,
\* is answered 400 by the step that receives it, which touches no table; a
\* body with exactly one of them, well-formed, passes payload validation.
C18_ExactlyOneImageField ==
    [][\A r \in Reqs : \A q \in Requests :
         (/\ Receive(r, q[1], q[2], q[3])
          /\ q[1] # NoClerk
          /\ BodyBytes(q[2], q[3]) <= JSON_BODY_LIMIT
          /\ ~BadPayload(q[2], q[3]) \/ (q[2] = "none" /\ ~q[3].present))
         => IF (q[2] = "none") = q[3].present
              THEN req'[r].pc = "user_select" /\ req'[r].status = 0
              ELSE /\ req'[r].pc = "done" /\ req'[r].status = 400
                   /\ UNCHANGED <<users, inspections, usageLogs>>]_vars

\* the inspections that have the id a GET /:id request asks for
WithId(t) == {i \in inspections : t.uuid /\ i.id = t.n}

\* the caller of request r is the user that inspection i belongs to
OwnedByCaller(r, i) ==
    /\ i.userId \in DOMAIN users
    /\ users[i.userId].clerkUserId = req[r].clerk

\* no response of GET /:id carries an Inspection that is not the caller's
OnlyOwnRows == \A r \in Readers : \A i \in req[r].body : OwnedByCaller(r, i)

\* C19 as claimed: GET /:id answers 401 without a session; once the caller's
\* user row is at hand, it answers 404 if no Inspection has the id, 403 if
\* the Inspection belongs to another user, and 200 with the row otherwise;
\* and no response ever carries an Inspection that is not the caller's.
C19_OwnerOnly ==
    /\ [][\A r \in Readers :
            /\ (\E id \in GetIds : GetById(r, NoClerk, id))
               => req'[r].status = 401 /\ req'[r].body = {}
            /\ GetSelect(r)
               => LET rows == WithId(req[r].target)
                  IN IF rows = {}
                       THEN req'[r].status = 404 /\ req'[r].body = {}
                     ELSE IF \E i \in rows : ~OwnedByCaller(r, i)
                       THEN req'[r].status = 403 /\ req'[r].body = {}
                     ELSE req'[r].status = 200 /\ req'[r].body = rows]_vars
    /\ []OnlyOwnRows

\* C20: an admin request without a session is answered 401, one whose
\* caller the identity provider reports with any role but superadmin 403,
\* one whose role lookup throws 500, each by a step that touches no table;
\* a statement of an admin route's body has run only for a caller with a
\* session whom the provider reported as superadmin; and only such a
\* request changes the table users.
C20_AdminOnlySuperadmin ==
    /\ [][\A r \in Admins :
            /\ (\E q \in AdminRequests :
                    AdminReceive(r, q[1], q[2], q[3], q[4]) /\ q[2] = NoClerk)
               => /\ req'[r].pc = "done" /\ req'[r].status = 401
                  /\ UNCHANGED <<users, inspections, usageLogs>>
            /\ (\E role \in AppRoles \ {"superadmin"} : EnsureSuperadmin(r, role))
               => /\ req'[r].pc = "done" /\ req'[r].status = 403
                  /\ UNCHANGED <<users, inspections, usageLogs>>
            /\ (req[r].pc = "role" /\ AdminThrow(r))
               => /\ req'[r].pc = "done" /\ req'[r].status = 500
                  /\ UNCHANGED <<users, inspections, usageLogs>>
            /\ (req'[r] # req[r] /\ users' # users)
               => req[r].clerk # NoClerk /\ req[r].role = "superadmin"]_vars
    /\ [](\A r \in Admins :
            /\ req[r].ran > 0
               => req[r].clerk # NoClerk /\ req[r].role = "superadmin"
            /\ (Done(r) /\ req[r].role # "superadmin")
               => req[r].status \in {401, 403, 500} /\ req[r].ran = 0)

\* C20 witness: an admin request of a caller reported with the role user
\* was answered 403 before any statement of the route's body ran.
C20_Witness ==
    \E r \in Admins :
        /\ Done(r) /\ req[r].status = 403
        /\ req[r].route = "patch"
        /\ req[r].role = "user"
        /\ req[r].ran = 0

\* C21: the insert of getOrCreateAppUserByClerkId adds one row for the
\* caller, with both counters 0; and once a request that created its user
\* row has been answered 200, no other request having updated the counters,
\* there is one row for the caller, its inspectionCount and
\* monthlyInspectionCount are 1, and the request has left one Inspection,
\* completed.
C21_FirstTimeUser ==
    /\ [][\A r \in Reqs :
            (UserInsert(r) /\ users' # users)
            => /\ Len(users') = Len(users) + 1
               /\ users'[Len(users')].clerkUserId = req[r].clerk
               /\ users'[Len(users')].inspectionCount = 0
               /\ users'[Len(users')].monthlyInspectionCount = 0
               /\ SelectByClerk(req[r].clerk) = {}]_vars
    /\ [](\A r \in Reqs :
            (/\ Done(r) /\ req[r].status = 200 /\ req[r].made = 1
             /\ \A q \in Reqs \ {r} : req[q].incs = 0)
            => /\ Cardinality(SelectByClerk(req[r].clerk)) = 1
               /\ users[req[r].appUser].inspectionCount = 1
               /\ users[req[r].appUser].monthlyInspectionCount = 1
               /\ Cardinality(InspectionsOf(r)) = 1
               /\ \A i \in InspectionsOf(r) :
                     i.processingStatus = "completed" /\ i.userId = req[r].appUser)

\* C21 witness: the first request of a caller without a row was answered
\* 200 and the counters of the row it created are 1.
C21_Witness ==
    \E r \in Reqs :
        /\ Done(r) /\ req[r].status = 200 /\ req[r].made = 1
        /\ users[req[r].appUser].inspectionCount = 1
        /\ users[req[r].appUser].monthlyInspectionCount = 1
        /\ InspectionsOf(r) # {}

\* the statuses POST /analyze answers with
AnalyzeStatuses == {200, 400, 401, 403, 413, 429, 500, 502}

\* C22: every request that has arrived is eventually answered; a request
\* that was answered is never answered again; an exception at an await of
\* the try block takes the handler into its catch block, and one at an await
\* of the catch block ends the request with its error response; a request
\* leaving the catch block is answered 500, or 401/403 if the exception it
\* caught carried that status.
C22_AlwaysOneResponse ==
    /\ \A r \in Reqs :
          (req[r].pc # "idle") ~> (Done(r) /\ req[r].status \in AnalyzeStatuses)
    /\ [][\A r \in Reqs :
            /\ Done(r) => req'[r] = req[r]
            /\ (\E st \in ErrStatuses : Throw(r, st))
               => IF req[r].inCatch THEN Done(r)' ELSE req'[r].inCatch
            /\ (req[r].inCatch /\ Done(r)')
               => req'[r].status =
                    (IF req[r].errStatus \in {401, 403} THEN req[r].errStatus
                                                         ELSE 500)]_vars

\* C22 witness: a request was answered 500 although the failure log of its
\* catch block could not be written.
C22_Witness ==
    \E r \in Reqs :
        /\ Done(r) /\ req[r].status = 500
        /\ req[r].calls = 1
        /\ req[r].appUser # 0
        /\ LogsOf(r) = {}

\* C23 as claimed: the image the normalizer hands on is neither wider nor
\* taller than the pixel cap.
C23_LongerEdgeCapped ==
    \A r \in Reqs :
        req[r].pc = "upload"
        => req[r].webp.width <= MaxSide /\ req[r].webp.height <= MaxSide

\* C24: within a request, the model is invoked once at most, by the step in
\* which the quota check admits a request with imageUrl or by the step in
\* which the upload returns; the upload is invoked once at most, after the
\* normalizer, which follows the quota check; the Inspection is inserted
\* once at most, by the step that follows the validation of the model's
\* answer; the counters are updated once at most, after the insert; and
\* once an exception was caught, no step of the pipeline runs again.
C24_StepOrder ==
    /\ [][\A r \in Reqs :
            /\ req'[r].calls > req[r].calls
               => /\ req[r].pc \in {"quota", "upload"} /\ req[r].calls = 0
                  /\ req[r].pc = "quota" => req[r].puts = 0
                  /\ req[r].pc = "upload" => req[r].puts = 1
            /\ (req'[r].pc = "model" /\ req[r].pc # "model")
               => req'[r].calls = 1
            /\ req'[r].puts > req[r].puts
               => req[r].pc = "compress" /\ req[r].puts = 0
            /\ (req'[r].pc = "compress" /\ req[r].pc # "compress")
               => QuotaCheck(r)
            /\ {i \in inspections' : i.id = r} # InspectionsOf(r)
               => /\ req[r].pc = "insert_inspection"
                  /\ InspectionsOf(r) = {}
                  /\ req[r].calls = 1
                  /\ ParsesAnalysis(req[r].answer)
            /\ (req'[r].pc = "insert_inspection" /\ req[r].pc # "insert_inspection")
               => req[r].pc = "model"
            /\ req'[r].incs > req[r].incs
               => InspectionsOf(r) # {} /\ req[r].incs = 0
            /\ req[r].inCatch
               => req'[r].pc \in CatchAwaits \cup {"done"}]_vars
    /\ [](\A r \in Reqs :
            /\ req[r].calls <= 1 /\ req[r].puts <= 1 /\ req[r].incs <= 1
            /\ Cardinality(InspectionsOf(r)) <= 1)

\* C24 witness: a request with imageData was answered 200 after one upload,
\* one call of the model, one insert and one counter update.
C24_Witness ==
    \E r \in Reqs :
        /\ Done(r) /\ req[r].status = 200
        /\ req[r].puts = 1 /\ req[r].calls = 1 /\ req[r].incs = 1
        /\ Cardinality(InspectionsOf(r)) = 1

\* C25: the counter update of a request that observed a month boundary
\* (the time it read is in another calendar month than the lastResetDate it
\* read) stores monthlyInspectionCount 1 and stamps lastResetDate with that
\* time; the counter update of a request that observed none leaves the
\* stored lastResetDate as it was and stores the previous stored count
\* plus 1.
C25_ResetOrPlusOne ==
    [][\A r \in Reqs :
         IncrUpdate(r)
         => LET before == users[req[r].appUser]
                after == users'[req[r].appUser]
            IN IF ~sameMonth(req[r].rowNow, req[r].row.lastResetDate)
                 THEN /\ after.monthlyInspectionCount = 1
                      /\ after.lastResetDate = req[r].rowNow
                 ELSE /\ after.lastResetDate = before.lastResetDate
                      /\ after.monthlyInspectionCount
                           = before.monthlyInspectionCount + 1]_vars

\* C26: when the POST /analyze requests of a user do not overlap and no
\* admin edits the counters, the stored monthlyInspectionCount is at most
\* MONTHLY_INSPECTION_LIMIT and the user has at most that many completed
\* Inspections created in any one calendar month.
C26_WithinLimitSequential ==
    \A uid \in DOMAIN users :
        /\ users[uid].monthlyInspectionCount <= MONTHLY_INSPECTION_LIMIT
        /\ \A m \in 0..MaxMonth :
               Cardinality(CompletedIn(uid, m)) <= MONTHLY_INSPECTION_LIMIT

\* C27: no step lowers the stored inspectionCount of a user: each write
\* stores a value at least as great as the one stored just before it.
C27_LifetimeNeverDecreases ==
    [][\A uid \in DOMAIN users :
          users'[uid].inspectionCount >= users[uid].inspectionCount]_vars

\* C28: in every state reached by webhook deliveries and POST /analyze
\* requests, overlapping ones and month boundaries included, each user's
\* monthlyInspectionCount is at least 0 and at most the user's
\* inspectionCount.
C28_MonthlyWithinLifetime ==
    \A uid \in DOMAIN users :
        /\ 0 <= users[uid].monthlyInspectionCount
        /\ users[uid].monthlyInspectionCount <= users[uid].inspectionCount

\* C28 witness: a user created by a user.created delivery has run, after a
\* month boundary and a reset, more inspections in all than this month.
C28_Witness ==
    \E h \in Hooks, uid \in DOMAIN users :
        /\ req[h].made = 1
        /\ users[uid].lastResetDate > 0
        /\ users[uid].monthlyInspectionCount >= 1
        /\ users[uid].monthlyInspectionCount < users[uid].inspectionCount
        /\ \E r \in Reqs : Done(r) /\ req[r].incs = 1 /\ req[r].appUser = uid

\* C29: in every state the users table holds at most one row per
\* clerkUserId; an insert of getOrCreateAppUserByClerkId or of a webhook
\* delivery that meets a row with its key writes nothing and fails: the
\* POST /analyze request enters its catch block and is answered with an
\* error status, the GET request is rejected, the delivery is answered 500.
C29_OneRowPerIdentity ==
    /\ [](\A c \in GetCallers : Cardinality(SelectByClerk(c)) <= 1)
    /\ [][\A r \in First \cup Readers :
            /\ (UserInsert(r) /\ SelectByClerk(req[r].clerk) # {})
               => /\ users' = users
                  /\ req'[r].made = req[r].made
                  /\ IF r \in Readers THEN req'[r].pc = "rejected"
                                       ELSE req'[r].inCatch
            /\ (req[r].inCatch /\ req'[r].pc = "done")
               => req'[r].status \in {401, 403, 500}]_vars
    /\ [][\A h \in Hooks :
            (HookInsert(h) /\ SelectByClerk(req[h].clerk) # {})
            => users' = users /\ req'[h].status = 500]_vars

\* C29 witness: a first-time POST /analyze request lost the race to a
\* delivery that inserted the user's row: it inserted none and was answered
\* 500, and the table holds the one row.
C29_Witness ==
    \E r \in First, h \in Hooks :
        /\ Done(r) /\ req[r].status = 500 /\ req[r].made = 0
        /\ req[h].made = 1 /\ req[h].clerk = "ca"
        /\ Cardinality(SelectByClerk("ca")) = 1
        /\ \E l \in usageLogs : l.id = r /\ ~l.success

\* What POST /analyze does with a user does not depend on isActive: the
\* quota check answers 429 exactly when the effective monthly count has
\* reached the limit, the insert adds a completed Inspection, and the
\* counter update stores the counters of the row it read, plus one, and
\* leaves isActive as it is, whether the row is active or not.
FlagNotConsulted(r) ==
    /\ (QuotaCheck(r) /\ HasRow(r))
       => ((req'[r].status = 429)
            <=> (EffectiveMonthly(users[req[r].appUser], now)
                   >= MONTHLY_INSPECTION_LIMIT))
    /\ (InsertInspection(r) /\ HasRow(r))
       => \E i \in inspections' \ inspections :
             i.userId = req[r].appUser /\ i.processingStatus = "completed"
    /\ IncrUpdate(r)
       => /\ users'[req[r].appUser].inspectionCount
               = req[r].row.inspectionCount + 1
          /\ users'[req[r].appUser].isActive = users[req[r].appUser].isActive

\* C30 as claimed: POST /analyze does not consult isActive, and no step of
\* an API request or of a webhook delivery sets isActive of a row from
\* false to true.
C30_NeverReactivated ==
    [][/\ \A r \in First : FlagNotConsulted(r)
       /\ \A uid \in DOMAIN users :
             ~users[uid].isActive => ~users'[uid].isActive]_vars

\* C30 amended: POST /analyze does not consult isActive, and the only step
\* that sets isActive of a row from false to true is the update of a PATCH
\* /admin/:id request whose body carries isActive: true.
C30_ReactivatedByAdminOnly ==
    [][/\ \A r \in First : FlagNotConsulted(r)
       /\ \A uid \in DOMAIN users :
             (~users[uid].isActive /\ users'[uid].isActive)
             => \E a \in Admins :
                   /\ PatchUser(a)
                   /\ req[a].target.n = uid
                   /\ "isActive" \in req[a].patch.fields
                   /\ req[a].patch.isActive]_vars

\* C30 witness: a request whose quota check ran on a row soft-deleted by a
\* user.deleted delivery was answered 200 after its insert and its counter
\* update, and the row is still inactive.
C30_Witness ==
    \E r \in First, h \in Hooks :
        /\ req[r].inactive
        /\ Done(r) /\ req[r].status = 200 /\ req[r].incs = 1
        /\ Cardinality(InspectionsOf(r)) = 1
        /\ req[h].event = "user.deleted" /\ req[h].status = 200
        /\ ~users[req[r].appUser].isActive
        /\ \A a \in Admins : req[a].pc = "idle"

====
